---- MODULE Spec2Model ----
(***************************************************************************)
(* The search cache of the real-estate agent: search_properties            *)
(* (src/test_prop.py) on top of the SQLite store of src/database.py.       *)
(*                                                                         *)
(* Every request runs on its own connection (flask.g is per application    *)
(* context), so the model keeps the committed tables apart from the one    *)
(* open write transaction SQLite allows at a time.  Python's sqlite3       *)
(* opens that transaction implicitly before the first INSERT and closes    *)
(* it on commit() or rollback().                                           *)
(*                                                                         *)
(* Spec is the cache under two concurrent requests.  CallSpec is one       *)
(* direct call, on the freshly initialised store, of search_properties,    *)
(* of the store's save and read, of the cache key computation, of          *)
(* _filter_listings_by_constraints (src/pf_debug_api.py) or of             *)
(* search_properties_with_pagination, with the upstream collaborator of    *)
(* src/property_finder.py spelled out.                                     *)
(***************************************************************************)
EXTENDS Integers, Sequences, FiniteSets, TLC

(* ---------------------------- bounds ----------------------------------- *)
NumIds == 2        \* distinct external listing ids the upstream may return
MaxResp == 2       \* longest upstream response

(* ------------------------- program constants --------------------------- *)
DefaultPage == 1   \* search_properties(filters, page=1, limit=50)
DefaultLimit == 50

(* Python's None for an optional scalar: the empty tuple; <<v>> is v. *)
None == << >>
Some(v) == << v >>
IsNone(o) == o = << >>
Val(o) == o[1]

(* The scenarios are about two search_properties calls, each on its own    *)
(* request thread and connection; they may overlap in any way or run one   *)
(* after the other.                                                        *)
Slots == {1, 2}
PropIds == 1..NumIds

(* A listing's price is missing or is 1; the callers' lower price bound,   *)
(* when given, is 2, so a priced listing lies below it.                    *)
Prices == {None, Some(1)}

(* A listing as the upstream collaborator returns it (the fields the       *)
(* cache logic reads: id and price).  An id n stands for the text          *)
(* str(prop.get('id')) the store keeps; ids are single digits, so the text *)
(* order of the index is the numeric order.                                *)
Listings == [id : PropIds, price : Prices]

(* The filter mappings the callers send: a location query and an optional  *)
(* lower price bound (two distinct cache keys).                            *)
Filters == [query : {"a"}, max_price : {None}, min_price : {None, Some(2)}]

VARIABLES
    queries,      \* cached_queries, committed: row i is <<id = i, query_string>>
    properties,   \* cached_properties, committed: a set of rows
    links,        \* query_property_map, committed: row i is <<query_id, property_id>>
    tx,           \* the open write transaction: its owner and its view of the tables
    pc,           \* per request thread: the statement it is about to run
    flt,          \* per request thread: the filters argument
    key,          \* per request thread: query_string
    qid,          \* per request thread: query_id (0 is None)
    resp,         \* per request thread: properties returned by property_finder_search
    idx,          \* per request thread: position of the save loop in resp
    result,       \* per request thread: the value search_properties returned
    upstream,     \* per request thread: calls made to property_finder_search
    cold,         \* per request thread: the store was empty when the call began
    after,        \* per request thread: the calls that had returned when it began
    commitOrder,  \* the request threads whose saves committed, in commit order
    call          \* the last direct call of a function of the program, outside
                  \* any request: its name, its arguments, what it returned
                  \* and whether it raised instead; for a search, also the
                  \* query_string it built, the filter mappings it handed to
                  \* its upstream collaborator (one per call of it) and the
                  \* caller's filters mapping as the call left it

vars == << queries, properties, links, tx, pc, flt, key, qid, resp, idx,
           result, upstream, cold, after, commitOrder, call >>

(* ------------------------- pure helpers -------------------------------- *)
Digit(n) ==
    CASE n = 0 -> "0" [] n = 1 -> "1" [] n = 2 -> "2" [] n = 3 -> "3"
      [] n = 4 -> "4" [] n = 5 -> "5" [] n = 6 -> "6" [] n = 7 -> "7"
      [] n = 8 -> "8" [] n = 9 -> "9"

RECURSIVE Str(_)
\* str(n) for an integer
Str(n) ==
    IF n < 0 THEN "-" \o Str(-n)
    ELSE IF n < 10 THEN Digit(n) ELSE Str(n \div 10) \o Digit(n % 10)

RECURSIVE JoinAmp(_)
\* '&'.join(segments)
JoinAmp(segs) ==
    IF Len(segs) = 0 THEN ""
    ELSE IF Len(segs) = 1 THEN segs[1]
    ELSE segs[1] \o "&" \o JoinAmp(Tail(segs))

\* One "name=value" segment of urlencode, or nothing when the filter was
\* dropped from cleaned_filters.
Segment(name, present, value) ==
    IF present THEN << name \o "=" \o value >> ELSE << >>

\* query_string of search_properties: the cleaned filters plus page and
\* limit, sorted by key ("beds" < "limit" < "max_price" < "min_price" <
\* "page" < "query"), urlencoded.  The filters carry a beds entry only in
\* the direct calls.
QueryString(f, page, limit) ==
    JoinAmp(   (IF "beds" \in DOMAIN f
                THEN Segment("beds", ~IsNone(f.beds) /\ f.beds # Some(0),
                             IF IsNone(f.beds) THEN "" ELSE Str(Val(f.beds)))
                ELSE << >>)
            \o Segment("limit", TRUE, Str(limit))
            \o Segment("max_price", ~IsNone(f.max_price) /\ f.max_price # Some(0),
                       IF IsNone(f.max_price) THEN "" ELSE Str(Val(f.max_price)))
            \o Segment("min_price", ~IsNone(f.min_price) /\ f.min_price # Some(0),
                       IF IsNone(f.min_price) THEN "" ELSE Str(Val(f.min_price)))
            \o Segment("page", TRUE, Str(page))
            \o Segment("query", f.query # "", f.query))

\* cleaned_filters.get(name): None when the filter was dropped as falsy.
Cleaned(v) == IF v = Some(0) THEN None ELSE v

(* ------------------------- the store ----------------------------------- *)
\* A lookup that never finds the row.
FindCachedQueryNever(qtab, qs) == 0

\* SELECT id FROM cached_queries WHERE query_string = ?   (0 for None)
FindCachedQuery(qtab, qs) ==
    IF \E i \in 1..Len(qtab) : qtab[i] = qs
    THEN CHOOSE i \in 1..Len(qtab) : qtab[i] = qs /\ \A j \in 1..(i-1) : qtab[j] # qs
    ELSE 0

\* A plain INSERT that did not stop at an existing query_string.
InsertQueryAlways(qtab, qs) == Append(qtab, qs)

\* INSERT OR REPLACE in place of INSERT OR IGNORE: an existing row is
\* deleted (its slot stays behind, emptied) and a new id is handed out.
InsertQueryReplaces(qtab, qs) ==
    Append([i \in 1..Len(qtab) |-> IF qtab[i] = qs THEN "" ELSE qtab[i]], qs)

\* The row is written under another string than the one looked up.
InsertQueryOtherKey(qtab, qs) == Append(qtab, "?" \o qs)

\* INSERT OR IGNORE INTO cached_queries (query_string) VALUES (?)
InsertQueryOrIgnore(qtab, qs) ==
    IF \E i \in 1..Len(qtab) : qtab[i] = qs THEN qtab ELSE Append(qtab, qs)

RECURSIVE JoinComma(_)
\* ','.join(urls), a text being the sequence of its characters
JoinComma(urls) ==
    IF Len(urls) = 0 THEN << >>
    ELSE IF Len(urls) = 1 THEN urls[1]
    ELSE urls[1] \o << "," >> \o JoinComma(Tail(urls))

\* database.py lines 112-116: all_image_urls_str for a list
SerializeImages(urls) == IF Len(urls) > 0 THEN JoinComma(urls) ELSE << >>

RECURSIVE SplitComma(_, _)
\* t.split(','), cur being the piece read so far
SplitComma(t, cur) ==
    IF Len(t) = 0 THEN << cur >>
    ELSE IF t[1] = "," THEN << cur >> \o SplitComma(Tail(t), << >>)
    ELSE SplitComma(Tail(t), Append(cur, t[1]))

\* database.py lines 179-182: the stored text back to a list
DeserializeImages(t) == IF Len(t) > 0 THEN SplitComma(t, << >>) ELSE << >>

\* The tuple of column values save_query_and_properties binds for a listing.
\* The listings of the requests carry id and price; those of the direct
\* calls carry the room count and the image URLs as well.
ToRow(prop) ==
    IF "all_image_urls" \in DOMAIN prop
    THEN [id |-> prop.id, price |-> prop.price, rooms |-> prop.rooms,
          all_image_urls |-> SerializeImages(prop.all_image_urls)]
    ELSE [id |-> prop.id, price |-> prop.price]

\* database.py lines 176-183: the dict built from a row.
FromRow(row) ==
    IF "all_image_urls" \in DOMAIN row
    THEN [row EXCEPT !.all_image_urls = DeserializeImages(@)]
    ELSE row

\* An upsert that keeps the old value of a column the new row leaves NULL.
UpsertMerges(ptab, row) ==
    LET old == {r \in ptab : r.id = row.id}
    IN {r \in ptab : r.id # row.id}
          \cup {IF old # {} /\ IsNone(row.price) THEN CHOOSE r \in old : TRUE ELSE row}

\* INSERT OR IGNORE in place of INSERT OR REPLACE: an existing row stays.
UpsertKeepsOld(ptab, row) ==
    IF \E r \in ptab : r.id = row.id THEN ptab ELSE ptab \cup {row}

\* INSERT OR REPLACE INTO cached_properties: the row with the same primary
\* key is deleted, the new one inserted.
UpsertProperty(ptab, row) == {r \in ptab : r.id # row.id} \cup {row}

\* A link table keyed by property_id alone: linking a property to a query
\* drops its links to other queries.
InsertLinkMoves(ltab, q, p) ==
    LET Other(l) == l[2] # p
    IN Append(SelectSeq(ltab, Other), << q, p >>)

\* A save that replaces the links of the query: linking a property to a
\* query drops the query's links to other properties.
InsertLinkReplaces(ltab, q, p) ==
    LET Other(l) == l[1] # q
    IN Append(SelectSeq(ltab, Other), << q, p >>)

\* A plain INSERT that did not stop at an existing (query_id, property_id).
InsertLinkAlways(ltab, q, p) == Append(ltab, << q, p >>)

\* INSERT OR IGNORE INTO query_property_map (query_id, property_id)
InsertLinkOrIgnore(ltab, q, p) ==
    IF \E i \in 1..Len(ltab) : ltab[i] = << q, p >> THEN ltab
    ELSE Append(ltab, << q, p >>)

RECURSIVE JoinRows(_, _, _, _)
\* The rows of the join, visiting property ids in the order of the unique
\* index on (query_id, property_id) that SQLite scans for this statement.
JoinRows(ptab, ltab, q, p) ==
    IF p > NumIds THEN << >>
    ELSE LET linked == \E i \in 1..Len(ltab) : ltab[i] = << q, p >>
             rows == {r \in ptab : r.id = p}
             here == IF linked /\ rows # {}
                     THEN << FromRow(CHOOSE r \in rows : TRUE) >> ELSE << >>
         IN here \o JoinRows(ptab, ltab, q, p + 1)

\* get_properties_for_query(query_id)
GetPropertiesForQuery(ptab, ltab, q) == JoinRows(ptab, ltab, q, 1)

Min(a, b) == IF a < b THEN a ELSE b
Max(a, b) == IF a > b THEN a ELSE b

\* The position a slice bound i stands for in a list of length n: a
\* negative bound counts from the end, and every bound is clipped to 0..n.
SliceBound(i, n) == IF i < 0 THEN Max(i + n, 0) ELSE Min(i, n)

\* properties_data[start:end]
Slice(s, start, end) ==
    SubSeq(s, SliceBound(start, Len(s)) + 1, SliceBound(end, Len(s)))

\* A page numbering that starts at 0.
PageStartFromZero(page, limit) == page * limit

\* test_prop.py line 60: start = (page - 1) * limit
PageStart(page, limit) == (page - 1) * limit

\* A price filter that lets a listing without price through.
KeepsPriceOrMissing(prop, lo, hi) ==
    \/ IsNone(prop.price)
    \/ /\ ~(~IsNone(lo) /\ Val(prop.price) < Val(lo))
       /\ ~(~IsNone(hi) /\ Val(prop.price) > Val(hi))

\* Step 7 of search_properties: the inline price filter of the miss path.
KeepsPrice(prop, lo, hi) ==
    /\ ~IsNone(prop.price)
    /\ ~(~IsNone(lo) /\ Val(prop.price) < Val(lo))
    /\ ~(~IsNone(hi) /\ Val(prop.price) > Val(hi))

RECURSIVE SelectKept(_, _, _)
SelectKept(props, lo, hi) ==
    IF Len(props) = 0 THEN << >>
    ELSE (IF KeepsPrice(props[1], lo, hi) THEN << props[1] >> ELSE << >>)
         \o SelectKept(Tail(props), lo, hi)

PriceFilter(props, lo, hi) ==
    IF ~IsNone(lo) \/ ~IsNone(hi) THEN SelectKept(props, lo, hi) ELSE props

(* The upstream collaborator's answers: property_finder_search returns     *)
(* listings with pairwise distinct, truthy ids.                            *)
Responses ==
    {s \in UNION {[1..n -> Listings] : n \in 0..MaxResp} :
        \A i, j \in 1..Len(s) : s[i].id = s[j].id => i = j}

NoTx == [owner |-> 0, queries |-> << >>, properties |-> {}, links |-> << >>]

\* No function has been called directly.
NoCall ==
    [fn |-> "", arg |-> << >>, ret |-> << >>, raised |-> FALSE,
     key |-> "", sent |-> << >>, left |-> << >>]

(* --------------------------- initial state ----------------------------- *)
Init ==
    /\ queries = << >>
    /\ properties = {}
    /\ links = << >>
    /\ tx = NoTx
    /\ pc = [s \in Slots |-> "idle"]
    /\ flt = [s \in Slots |-> [query |-> "a", max_price |-> None, min_price |-> None]]
    /\ key = [s \in Slots |-> ""]
    /\ qid = [s \in Slots |-> 0]
    /\ resp = [s \in Slots |-> << >>]
    /\ idx = [s \in Slots |-> 0]
    /\ result = [s \in Slots |-> << >>]
    /\ upstream = [s \in Slots |-> 0]
    /\ cold = [s \in Slots |-> FALSE]
    /\ after = [s \in Slots |-> {}]
    /\ commitOrder = << >>
    /\ call = NoCall

store == << queries, properties, links >>

(* ------------------------------ actions -------------------------------- *)
\* search_properties is called: lines 37-46 build the cache key, line 51
\* looks it up (query_id = database.find_cached_query(query_string)).
Call(s) ==
    /\ pc[s] = "idle"
    /\ \E f \in Filters :
          /\ flt' = [flt EXCEPT ![s] = f]
          /\ key' = [key EXCEPT ![s] = QueryString(f, DefaultPage, DefaultLimit)]
    /\ qid' = [qid EXCEPT ![s] = FindCachedQuery(queries, key'[s])]
    /\ pc' = [pc EXCEPT ![s] = IF qid'[s] # 0 THEN "hit" ELSE "miss"]
    /\ cold' = [cold EXCEPT ![s] = queries = << >> /\ properties = {} /\ links = << >>]
    /\ after' = [after EXCEPT ![s] = {t \in Slots \ {s} : pc[t] = "done"}]
    /\ UNCHANGED << call, store, tx, resp, idx, result, upstream, commitOrder >>

\* Lines 56-65: the cache hit returns a page of the stored properties.  (The
\* locals of a call that has returned or raised are gone: qid and idx are
\* cleared; resp and result stay as the record of what it got and gave.)
Hit(s) ==
    /\ pc[s] = "hit"
    /\ result' = [result EXCEPT ![s] =
          Slice(GetPropertiesForQuery(properties, links, qid[s]),
                (DefaultPage - 1) * DefaultLimit,
                (DefaultPage - 1) * DefaultLimit + DefaultLimit)]
    /\ pc' = [pc EXCEPT ![s] = "done"]
    /\ qid' = [qid EXCEPT ![s] = 0]
    /\ UNCHANGED << call, store, tx, flt, key, resp, idx, upstream, cold, after,
                    commitOrder >>

\* Lines 89-111: what the miss path returns for the upstream answer r.
MissResult(f, r) == PriceFilter(r, Cleaned(f.min_price), Cleaned(f.max_price))

\* Line 79: the upstream collaborator is called and answers.  Line 83 skips
\* the save when the answer is empty, and the call returns (lines 89-111).
Fetch(s) ==
    /\ pc[s] = "miss"
    /\ \E r \in Responses :
          /\ resp' = [resp EXCEPT ![s] = r]
          /\ IF r # << >>
             THEN /\ pc' = [pc EXCEPT ![s] = "save_query"]
                  /\ UNCHANGED result
             ELSE /\ pc' = [pc EXCEPT ![s] = "done"]
                  /\ result' = [result EXCEPT ![s] = MissResult(flt[s], r)]
    /\ upstream' = [upstream EXCEPT ![s] = @ + 1]
    /\ UNCHANGED << call, store, tx, flt, key, qid, idx, cold, after, commitOrder >>

\* database.py lines 99-107: INSERT OR IGNORE the query row, db.commit(),
\* SELECT its id back.  The insert needs the write lock, so it waits while
\* another connection holds a write transaction.
SaveQuery(s) ==
    /\ pc[s] = "save_query"
    /\ tx.owner = 0
    /\ queries' = InsertQueryOrIgnore(queries, key[s])
    /\ qid' = [qid EXCEPT ![s] = FindCachedQuery(queries', key[s])]
    /\ idx' = [idx EXCEPT ![s] = 1]
    /\ pc' = [pc EXCEPT ![s] = "save_loop"]
    /\ UNCHANGED << call, properties, links, tx, flt, key, resp, result, upstream,
                    cold, after, commitOrder >>

\* The tables as the connection of s sees them.
View(s) ==
    IF tx.owner = s THEN tx
    ELSE [owner |-> s, queries |-> queries, properties |-> properties, links |-> links]

\* database.py lines 111-151, the body of the loop: upsert the property row
\* and insert its link, in the tables v the connection sees.
SaveStep(v, q, prop) ==
    [v EXCEPT !.properties = UpsertProperty(v.properties, ToRow(prop)),
              !.links = InsertLinkOrIgnore(v.links, q, prop.id)]

RECURSIVE SaveAll(_, _, _)
\* database.py lines 110-151: the loop over all of props.
SaveAll(v, q, props) ==
    IF Len(props) = 0 THEN v
    ELSE SaveAll(SaveStep(v, q, props[1]), q, Tail(props))

\* save_query_and_properties(query_string, properties) run to its end on
\* the tables v, with no other connection writing meanwhile.
SaveQueryAndProperties(v, k, props) ==
    LET withQuery == [v EXCEPT !.queries = InsertQueryOrIgnore(v.queries, k)]
    IN SaveAll(withQuery, FindCachedQuery(withQuery.queries, k), props)

\* database.py lines 110-151, one iteration, inside the connection's write
\* transaction (begun by the first INSERT, which waits for the write lock).
SaveProperty(s) ==
    /\ pc[s] = "save_loop"
    /\ idx[s] <= Len(resp[s])
    /\ tx.owner \in {0, s}
    /\ tx' = SaveStep(View(s), qid[s], resp[s][idx[s]])
    /\ idx' = [idx EXCEPT ![s] = @ + 1]
    /\ UNCHANGED << call, store, pc, flt, key, qid, resp, result, upstream, cold, after,
                    commitOrder >>

\* database.py line 153: db.commit() publishes the transaction; then
\* search_properties returns (lines 89-111).
SaveCommit(s) ==
    /\ pc[s] = "save_loop"
    /\ idx[s] > Len(resp[s])
    /\ tx.owner = s
    /\ queries' = tx.queries
    /\ properties' = tx.properties
    /\ links' = tx.links
    /\ tx' = NoTx
    /\ commitOrder' = Append(commitOrder, s)
    /\ result' = [result EXCEPT ![s] = MissResult(flt[s], resp[s])]
    /\ pc' = [pc EXCEPT ![s] = "done"]
    /\ qid' = [qid EXCEPT ![s] = 0]
    /\ idx' = [idx EXCEPT ![s] = 0]
    /\ UNCHANGED << call, flt, key, resp, upstream, cold, after >>

\* database.py lines 156-159: a statement of the try block raises;
\* db.rollback() drops the open transaction and the error is re-raised
\* through search_properties.
SaveRaise(s) ==
    /\ pc[s] \in {"save_query", "save_loop"}
    /\ tx' = IF tx.owner = s THEN NoTx ELSE tx
    /\ pc' = [pc EXCEPT ![s] = "error"]
    /\ qid' = [qid EXCEPT ![s] = 0]
    /\ idx' = [idx EXCEPT ![s] = 0]
    /\ resp' = [resp EXCEPT ![s] = << >>]
    /\ UNCHANGED << call, store, flt, key, result, upstream, cold, after, commitOrder >>

Next ==
    \E s \in Slots :
        \/ Call(s)
        \/ Hit(s)
        \/ Fetch(s)
        \/ SaveQuery(s)
        \/ SaveProperty(s)
        \/ SaveCommit(s)
        \/ SaveRaise(s)

Spec == Init /\ [][Next]_vars

(* The committed tables. *)
Current ==
    [owner |-> 0, queries |-> queries, properties |-> properties, links |-> links]

(* ====================== functions called directly ====================== *)
(* The functions below are also checked one call at a time: a behaviour    *)
(* of CallSpec is one direct call, with arguments drawn from bounded sets, *)
(* on the freshly initialised store; `call` records it.                    *)

(* Python values of the kinds the filter mappings and listings carry.  A   *)
(* text is the sequence of its characters; a list is the sequence of its   *)
(* items.                                                                  *)
PyNone == [kind |-> "none", num |-> 0, txt |-> << >>]
PyInt(n) == [kind |-> "int", num |-> n, txt |-> << >>]
PyStr(t) == [kind |-> "str", num |-> 0, txt |-> t]
PyList(items) == [kind |-> "list", num |-> 0, txt |-> items]

\* bool(v)
Truthy(v) ==
    CASE v.kind = "none" -> FALSE
      [] v.kind = "int" -> v.num # 0
      [] OTHER -> Len(v.txt) > 0

DigitValue(c) ==
    CASE c = "0" -> 0 [] c = "1" -> 1 [] c = "2" -> 2 [] c = "3" -> 3
      [] c = "4" -> 4 [] c = "5" -> 5 [] c = "6" -> 6 [] c = "7" -> 7
      [] c = "8" -> 8 [] c = "9" -> 9 [] OTHER -> -1

RECURSIVE Strip(_)
\* str.strip(): leading and trailing blanks removed
Strip(t) ==
    IF Len(t) = 0 THEN t
    ELSE IF t[1] = " " THEN Strip(Tail(t))
    ELSE IF t[Len(t)] = " " THEN Strip(SubSeq(t, 1, Len(t) - 1))
    ELSE t

RECURSIVE ParseDigits(_, _)
\* The value of a run of decimal digits read after acc; None when a
\* character is no digit.
ParseDigits(t, acc) ==
    IF Len(t) = 0 THEN Some(acc)
    ELSE IF DigitValue(t[1]) < 0 THEN None
    ELSE ParseDigits(Tail(t), 10 * acc + DigitValue(t[1]))

\* int(v): Some(n), or None when int() raises ValueError or TypeError.
IntOf(v) ==
    CASE v.kind = "int" -> Some(v.num)
      [] v.kind = "str" -> IF Len(Strip(v.txt)) = 0 THEN None
                           ELSE ParseDigits(Strip(v.txt), 0)
      [] OTHER -> None

LowerChar(c) ==
    CASE c = "B" -> "b" [] c = "F" -> "f" [] c = "R" -> "r" [] c = "S" -> "s"
      [] OTHER -> c

\* str.lower()
Lower(t) == [i \in 1..Len(t) |-> LowerChar(t[i])]

\* sub in t, for texts
Contains(sub, t) ==
    \E i \in 0..(Len(t) - Len(sub)) : SubSeq(t, i + 1, i + Len(sub)) = sub

\* (v or '').strip().lower() for v None or a text
NormalPurpose(v) == IF v.kind = "str" THEN Lower(Strip(v.txt)) ELSE << >>

Sale == << "s", "a", "l", "e" >>
Rent == << "r", "e", "n", "t" >>

\* A price filter that drops the listing whose price cannot be compared
\* with the bound (fail-closed).
PriceRejectsUnlessComparable(price, bound, below) ==
    /\ bound.kind # "none"
    /\ ~IsNone(IntOf(bound))
    /\ \/ price.kind # "int"
       \/ IF below THEN price.num < Val(IntOf(bound)) ELSE price.num > Val(IntOf(bound))

\* pf_debug_api.py lines 237-243 (bound = min_price, below = TRUE) and
\* 246-252 (bound = max_price, below = FALSE): the listing is skipped.  A
\* comparison of a text with a number, or int() of a value that is no
\* number, raises and is passed over.
PriceRejects(price, bound, below) ==
    /\ bound.kind # "none" /\ price.kind # "none"
    /\ ~IsNone(IntOf(bound))
    /\ price.kind = "int"
    /\ IF below THEN price.num < Val(IntOf(bound)) ELSE price.num > Val(IntOf(bound))

\* "At least beds bedrooms" in place of the exact match.
BedsRejectsFewer(rooms, beds) ==
    /\ beds.kind # "none" /\ rooms.kind # "none"
    /\ ~IsNone(IntOf(beds)) /\ ~IsNone(IntOf(rooms))
    /\ Val(IntOf(rooms)) < Val(IntOf(beds))

\* pf_debug_api.py lines 255-263: exact bedroom match.
BedsRejects(rooms, beds) ==
    /\ beds.kind # "none" /\ rooms.kind # "none"
    /\ ~IsNone(IntOf(beds)) /\ ~IsNone(IntOf(rooms))
    /\ Val(IntOf(rooms)) # Val(IntOf(beds))

\* The rule applied to whatever purpose the constraints name.
PurposeRejectsAnyValue(pPurpose, purpose) ==
    /\ Len(purpose) > 0 /\ Len(pPurpose) > 0
    /\ ~Contains(purpose, pPurpose)

\* pf_debug_api.py lines 266-272: purpose filtering, on the normalised texts.
PurposeRejects(pPurpose, purpose) ==
    /\ Len(purpose) > 0 /\ Len(pPurpose) > 0
    /\ \/ purpose = Sale /\ ~Contains(Sale, pPurpose)
       \/ purpose = Rent /\ ~Contains(Rent, pPurpose)

\* The body of the loop of _filter_listings_by_constraints: listing p is
\* appended to `filtered`.
Passes(p, c) ==
    /\ ~PriceRejects(p.price, c.min_price, TRUE)
    /\ ~PriceRejects(p.price, c.max_price, FALSE)
    /\ ~BedsRejects(p.rooms, c.beds)
    /\ ~PurposeRejects(NormalPurpose(p.purpose), NormalPurpose(c.purpose))

\* pf_debug_api.py lines 210 and 234: (v or '').strip() raises
\* AttributeError for a truthy value that is no text.
PurposeRaises(v) == Truthy(v) /\ v.kind # "str"

\* _filter_listings_by_constraints(listings, constraints) is left by an
\* exception: nothing around the two strip() calls catches it.
FilterRaises(listings, c) ==
    \/ PurposeRaises(c.purpose)
    \/ \E i \in 1..Len(listings) : PurposeRaises(listings[i].purpose)

RECURSIVE FilterListingsByConstraints(_, _)
\* _filter_listings_by_constraints(listings, constraints) for a list, when
\* no exception leaves it
FilterListingsByConstraints(listings, c) ==
    IF Len(listings) = 0 THEN << >>
    ELSE (IF Passes(listings[1], c) THEN << listings[1] >> ELSE << >>)
         \o FilterListingsByConstraints(Tail(listings), c)

(* -------------------- the cache key, in general ------------------------ *)
(* A filter mapping is the sequence of its items << name, value >> in      *)
(* insertion order, with pairwise distinct names.                          *)

\* test_prop.py line 37: {k: v for k, v in filters.items() if v and v != ['']}
CleanedItems(items) ==
    LET Keep(it) == Truthy(it[2]) /\ it[2] # PyList(<< PyStr(<< >>) >>)
    IN SelectSeq(items, Keep)

\* d.setdefault(name, v): an existing item keeps its value.
SetItemUnlessPresent(items, name, v) ==
    IF \E i \in 1..Len(items) : items[i][1] = name THEN items
    ELSE Append(items, << name, v >>)

\* d[name] = v: an existing item keeps its place, a new one goes last.
SetItem(items, name, v) ==
    IF \E i \in 1..Len(items) : items[i][1] = name
    THEN [i \in 1..Len(items) |-> IF items[i][1] = name THEN << name, v >> ELSE items[i]]
    ELSE Append(items, << name, v >>)

\* The filter names of the model in the order Python compares them.
NameOrder == << "beds", "limit", "max_price", "min_price", "page", "query" >>
Rank(name) == CHOOSE i \in 1..Len(NameOrder) : NameOrder[i] = name

RECURSIVE InsertByName(_, _)
InsertByName(sorted, it) ==
    IF Len(sorted) = 0 THEN << it >>
    ELSE IF Rank(it[1]) < Rank(sorted[1][1]) THEN << it >> \o sorted
    ELSE << sorted[1] >> \o InsertByName(Tail(sorted), it)

\* The items left in the order they were inserted.
UnsortedItems(items) == items

RECURSIVE SortedItems(_)
\* test_prop.py line 45: sorted(cleaned_filters.items()); the names are
\* distinct, so the values are never compared.
SortedItems(items) ==
    IF Len(items) = 0 THEN << >>
    ELSE InsertByName(SortedItems(SubSeq(items, 1, Len(items) - 1)), items[Len(items)])

QuoteChar(c) ==
    CASE c = " " -> "+" [] c = "&" -> "%26" [] c = "=" -> "%3D" [] c = "," -> "%2C"
      [] OTHER -> c

RECURSIVE QuotePlus(_)
\* urllib.parse.quote_plus of a text
QuotePlus(t) == IF Len(t) = 0 THEN "" ELSE QuoteChar(t[1]) \o QuotePlus(Tail(t))

\* quote_plus(str(v)) for a scalar v
QuotedScalar(v) ==
    CASE v.kind = "str" -> QuotePlus(v.txt)
      [] v.kind = "int" -> Str(v.num)
      [] OTHER -> "None"

RECURSIVE QuotedRepr(_)
\* quote_plus of the items of repr(list), joined
QuotedRepr(vs) ==
    IF Len(vs) = 0 THEN ""
    ELSE (IF vs[1].kind = "str" THEN "%27" \o QuotedScalar(vs[1]) \o "%27"
          ELSE QuotedScalar(vs[1]))
         \o (IF Len(vs) > 1 THEN "%2C+" ELSE "") \o QuotedRepr(Tail(vs))

\* urlencode without doseq: a list value is one segment, the quoted repr
\* of the list.
ItemSegmentsNoSeq(name, v) ==
    IF v.kind = "list" THEN << name \o "=%5B" \o QuotedRepr(v.txt) \o "%5D" >>
    ELSE << name \o "=" \o QuotedScalar(v) >>

\* urlencode(..., doseq=True), one item: a list contributes one segment per
\* element, a scalar one segment.
ItemSegments(name, v) ==
    IF v.kind = "list"
    THEN [i \in 1..Len(v.txt) |-> name \o "=" \o QuotedScalar(v.txt[i])]
    ELSE << name \o "=" \o QuotedScalar(v) >>

RECURSIVE AllSegments(_)
AllSegments(items) ==
    IF Len(items) = 0 THEN << >>
    ELSE ItemSegments(items[1][1], items[1][2]) \o AllSegments(Tail(items))

\* test_prop.py line 46: urlencode(sorted_filters, doseq=True)
UrlEncode(items) == JoinAmp(AllSegments(items))

\* test_prop.py lines 37-41: cleaned_filters once page and limit are set
CleanedFilters(items, page, limit) ==
    SetItem(SetItem(CleanedItems(items), "page", PyInt(page)), "limit", PyInt(limit))

\* test_prop.py lines 37-46: query_string for any filter mapping
CacheKey(items, page, limit) == UrlEncode(SortedItems(CleanedFilters(items, page, limit)))

\* d.get(name)
GetItem(items, name) ==
    IF \E i \in 1..Len(items) : items[i][1] = name
    THEN (CHOOSE it \in {items[i] : i \in 1..Len(items)} : it[1] = name)[2]
    ELSE PyNone

\* test_prop.py lines 73-76: the mapping under "filters" that is handed to
\* property_finder_search; 'query' is popped and set again as
\* 'location_query'.
UpstreamFilters(items, page, limit) ==
    LET cleaned == CleanedFilters(items, page, limit)
        NotQuery(it) == it[1] # "query"
    IN IF \E i \in 1..Len(cleaned) : cleaned[i][1] = "query"
       THEN Append(SelectSeq(cleaned, NotQuery),
                   << "location_query", GetItem(cleaned, "query") >>)
       ELSE cleaned

\* test_prop.py lines 89-90: a price bound of the cleaned filters
BoundOf(items, name) ==
    IF GetItem(CleanedItems(items), name).kind = "int"
    THEN Some(GetItem(CleanedItems(items), name).num)
    ELSE None

(* ------------------- the upstream collaborator ------------------------- *)
MAX_PAGES == 10    \* search_properties_with_pagination

\* property_finder.py lines 222-241: the listings of one result page; a
\* failed request is caught and gives the empty list.
FetchPropertyfinderListings(answer) ==
    IF answer.ok THEN answer.listings ELSE << >>

\* What the request for page n gives; the site has no listings after the
\* last of `pages`.
PageListings(pages, n) ==
    IF n > Len(pages) THEN << >> ELSE FetchPropertyfinderListings(pages[n])

\* A loop over the pages that has no last page number.
BeyondNoPage(n) == FALSE

\* property_finder.py line 254: range(1, MAX_PAGES + 1) is exhausted.
BeyondLastPage(n) == n > MAX_PAGES

RECURSIVE CollectPages(_, _)
\* property_finder.py lines 254-266: pages are fetched from page n on until
\* one is empty or MAX_PAGES is passed.
CollectPages(pages, n) ==
    IF BeyondLastPage(n) THEN << >>
    ELSE LET got == PageListings(pages, n)
         IN IF got = << >> THEN << >> ELSE got \o CollectPages(pages, n + 1)

RECURSIVE RequestedPages(_, _, _)
\* property_finder.py lines 256-259: the page_filters of the requests the
\* loop makes from page n on, page_filters being filters with 'page' set.
RequestedPages(filters, pages, n) ==
    IF BeyondLastPage(n) THEN << >>
    ELSE << SetItem(filters, "page", PyInt(n)) >>
            \o (IF PageListings(pages, n) = << >> THEN << >>
                ELSE RequestedPages(filters, pages, n + 1))

\* The listings left as they were collected.
NotDeduplicated(listings, seen) == listings

RECURSIVE Unique(_, _)
\* property_finder.py lines 268-275: the first listing of every id; a
\* listing whose id is falsy (0 stands for it) is passed over.
Unique(listings, seen) ==
    IF Len(listings) = 0 THEN << >>
    ELSE IF listings[1].id = 0 \/ listings[1].id \in seen
         THEN Unique(Tail(listings), seen)
    ELSE << listings[1] >> \o Unique(Tail(listings), seen \cup {listings[1].id})

\* search_properties_with_pagination(filters, build_id)
SearchPropertiesWithPagination(pages) == Unique(CollectPages(pages, 1), {})

\* property_finder_search(search_filters): what it returns, or that an
\* exception left it (search_location and initialise do not catch the
\* errors of their requests; initialise returns None for a page it cannot
\* parse).
PropertyFinderSearch(o) ==
    IF o.location = "raise" \/ o.build = "raise"
    THEN [raised |-> TRUE, listings |-> << >>]
    ELSE IF o.build = "none" THEN [raised |-> FALSE, listings |-> << >>]
    ELSE [raised |-> FALSE, listings |-> SearchPropertiesWithPagination(o.pages)]

(* ------------------ arguments of the direct calls ---------------------- *)
MaxNum == 3        \* largest price and room count of a listing

\* A listing's price: missing, a number, or a text that is no number.
PriceVals == {PyNone, PyStr(<< "x" >>)} \cup {PyInt(n) : n \in 1..MaxNum}

\* A listing's room count: as the price, or a number given as text.
RoomVals == PriceVals \cup {PyStr(<< "2" >>)}

\* A price or bedroom constraint: absent, the number 2, the text "2", a
\* text that is no number.
BoundVals == {PyNone, PyInt(2), PyStr(<< "2" >>), PyStr(<< "x" >>)}

\* The beds constraint may also arrive as a list (request.args.getlist).
BedsVals == BoundVals \cup {PyList(<< PyStr(<< "2" >>) >>)}

\* A purpose: missing, a text, or a number where a text is expected.
ListingPurposes ==
    {PyNone, PyStr(<< >>), PyStr(<< "F", "o", "r", " ", "S", "a", "l", "e" >>),
     PyStr(<< "R", "e", "n", "t" >>), PyStr(<< "b", "u", "y" >>), PyInt(1)}

ConstraintPurposes ==
    {PyNone, PyStr(<< >>), PyStr(<< " ", "S", "a", "l", "e" >>),
     PyStr(<< "r", "e", "n", "t" >>), PyStr(<< "B", "u", "y" >>), PyInt(1)}

FilterListings ==
    [id : {1}, price : PriceVals, rooms : RoomVals, purpose : ListingPurposes]

Constraints ==
    [min_price : BoundVals, max_price : BoundVals, beds : BedsVals,
     purpose : ConstraintPurposes]

\* The lists given to the filter: empty, one listing of any shape, or two
\* priced listings.
FilterInputs ==
    {<< >>} \cup {<< l >> : l \in FilterListings}
        \cup {<< [id |-> 1, price |-> PyInt(m), rooms |-> PyNone, purpose |-> PyNone],
                 [id |-> 2, price |-> PyInt(n), rooms |-> PyNone, purpose |-> PyNone] >> :
                 m, n \in 1..MaxNum}

\* The values a filter may carry: unset in its four forms, texts, numbers
\* and lists of them.
FilterVals ==
    {PyNone, PyStr(<< >>), PyList(<< >>), PyList(<< PyStr(<< >>) >>),
     PyStr(<< "3" >>), PyInt(0), PyInt(MaxNum),
     PyList(<< PyStr(<< "3" >>) >>), PyList(<< PyInt(0) >>),
     PyList(<< PyStr(<< "3" >>), PyStr(<< "a", " ", "b" >>) >>)}

FilterNames == {"beds", "query"}

\* The filter mappings: items with distinct names, in any insertion order.
FilterMaps ==
    {<< >>} \cup {<< << n, v >> >> : n \in FilterNames, v \in FilterVals}
        \cup UNION {{<< << m, v >>, << n, w >> >> :
                        n \in FilterNames \ {m}, v \in FilterVals, w \in FilterVals} :
                    m \in FilterNames}

MaxUrlLen == 2     \* longest image URL, in characters
MaxImages == 2     \* longest image list

\* The characters of an image URL: a letter, and the comma a URL may hold.
UrlChars == {"a", ","}
Urls == UNION {[1..n -> UrlChars] : n \in 0..MaxUrlLen}
ImageLists == UNION {[1..n -> Urls] : n \in 0..MaxImages}

\* The filters of a direct search: a location, an optional bedroom count
\* and optional price bounds (a bound of 0 is dropped with the empty
\* filters).
BedsFilters ==
    [query : {"a"}, beds : {None, Some(2)}, max_price : {None, Some(1)},
     min_price : {None, Some(0), Some(2)}]

\* An optional number as a Python value.
PyOpt(o) == IF IsNone(o) THEN PyNone ELSE PyInt(Val(o))

\* The filters f of a direct search as the mapping the caller builds.
ItemsOf(f) ==
    << << "query", PyStr(<< f.query >>) >>, << "beds", PyOpt(f.beds) >>,
       << "min_price", PyOpt(f.min_price) >>, << "max_price", PyOpt(f.max_price) >> >>

\* A listing with the fields the direct calls read.
FullListings ==
    [id : PropIds, price : {None, Some(1), Some(2)},
     rooms : {None, Some(1), Some(2)}, all_image_urls : {<< >>}]

MaxPages == 2      \* result pages the upstream site has for a search

\* What one request for a result page gives: it fails, or it answers with
\* no listing or with one.
PageAnswers ==
    {[ok |-> FALSE, listings |-> << >>], [ok |-> TRUE, listings |-> << >>]}
        \cup {[ok |-> TRUE, listings |-> << l >>] : l \in FullListings}

\* What the upstream site does during one property_finder_search: the
\* location request or the page carrying the build id fails, the build id
\* cannot be parsed out of the page, or the result pages answer.
UpstreamOutcomes ==
    {[location |-> "raise", build |-> "ok", pages |-> << >>],
     [location |-> "ok", build |-> "raise", pages |-> << >>],
     [location |-> "ok", build |-> "none", pages |-> << >>]}
        \cup {[location |-> "ok", build |-> "ok", pages |-> ps] :
                 ps \in UNION {[1..n -> PageAnswers] : n \in 0..MaxPages}}

MaxPageArg == 3    \* largest page and limit argument of a direct search

\* The page and limit arguments: negative, zero and positive.
PageArgs == -1..MaxPageArg

\* The filter mappings of the paged searches: a location, with or without
\* a 'page' or 'limit' entry of the caller's own (api_search passes one).
PagedFilterMaps ==
    LET q == << "query", PyStr(<< "a" >>) >>
    IN {<< q >>}
          \cup {<< q, << "page", PyInt(n) >> >> : n \in {0, 2}}
          \cup {<< << "limit", PyInt(n) >>, q >> : n \in {0, 2}}
          \cup {<< << "page", PyInt(2) >>, q, << "limit", PyInt(3) >> >>}

\* The listings an upstream answer carries, when none has a price.
Unpriced == {r \in Responses : \A i \in 1..Len(r) : IsNone(r[i].price)}

MaxSitePages == 11 \* most result pages of a site in a direct pagination
MaxPerPage == 2    \* most listings on a result page in a direct pagination

\* A listing as a result page carries it into the pagination loop: its id
\* (0: a falsy id) and its price.
PageItems == [id : 0..NumIds, price : Prices]

\* A site of `total` result pages, each with one listing, but for page
\* `gap` (if any), which is empty or whose request fails.
LongSite(total, gap, ok) ==
    [n \in 1..total |->
        IF n = gap THEN [ok |-> ok, listings |-> << >>]
        ELSE [ok |-> TRUE,
              listings |-> << [id |-> (n % NumIds) + 1, price |-> None] >>]]

\* The sites of the direct paginations: the long ones, and those of a
\* page of up to MaxPerPage listings and a page of at most one.
Sites ==
    {LongSite(total, gap, ok) : total \in 0..MaxSitePages, gap \in 0..MaxSitePages,
                                ok \in BOOLEAN}
        \cup {<< [ok |-> TRUE, listings |-> a], [ok |-> TRUE, listings |-> b] >> :
                 a \in UNION {[1..n -> PageItems] : n \in 1..MaxPerPage},
                 b \in UNION {[1..n -> PageItems] : n \in 0..1}}

(* ------------------------- the direct calls ---------------------------- *)
requestVars == << queries, properties, links, tx, pc, flt, key, qid, resp, idx,
                  result, upstream, cold, after, commitOrder >>

\* _filter_listings_by_constraints(listings, constraints) is called.
FilterCall ==
    /\ call = NoCall
    /\ \E ls \in FilterInputs, c \in Constraints :
          call' = [fn |-> "_filter_listings_by_constraints",
                   arg |-> << ls, c >>,
                   ret |-> IF FilterRaises(ls, c) THEN << >>
                           ELSE FilterListingsByConstraints(ls, c),
                   raised |-> FilterRaises(ls, c),
                   key |-> "", sent |-> << >>, left |-> << >>]
    /\ UNCHANGED requestVars

\* search_properties is called with filters a and, on its own, with
\* filters b: the query_string each call builds (test_prop.py lines 37-46).
KeyCall ==
    /\ call = NoCall
    /\ \E a \in FilterMaps, b \in FilterMaps :
          call' = [fn |-> "query_string",
                   arg |-> << a, b >>,
                   ret |-> << CacheKey(a, DefaultPage, DefaultLimit),
                              CacheKey(b, DefaultPage, DefaultLimit) >>,
                   raised |-> FALSE,
                   key |-> "", sent |-> << >>, left |-> << >>]
    /\ UNCHANGED requestVars

\* search_properties(f) is called on the freshly initialised store and
\* runs to its end with no other request in flight: the lookup of line 51
\* finds nothing and the upstream collaborator is called (line 79).  When
\* it raises, the exception leaves search_properties; otherwise a
\* non-empty answer is saved (lines 83-86) and the price filter shapes the
\* return value (lines 89-111).
SearchCall ==
    /\ call = NoCall
    /\ queries = << >>
    /\ \E f \in BedsFilters, o \in UpstreamOutcomes :
          LET k == QueryString(f, DefaultPage, DefaultLimit)
              up == PropertyFinderSearch(o)
              r == up.listings
              saved == IF ~up.raised /\ r # << >>
                       THEN SaveQueryAndProperties(Current, k, r)
                       ELSE Current
          IN /\ queries' = saved.queries
             /\ properties' = saved.properties
             /\ links' = saved.links
             /\ call' = [fn |-> "search_properties",
                         arg |-> << f, o >>,
                         ret |-> IF up.raised THEN << >> ELSE MissResult(f, r),
                         raised |-> up.raised,
                         key |-> k,
                         sent |-> << UpstreamFilters(ItemsOf(f), DefaultPage,
                                                     DefaultLimit) >>,
                         left |-> ItemsOf(f)]
    /\ UNCHANGED << tx, pc, flt, key, qid, resp, idx, result, upstream, cold,
                    after, commitOrder >>

\* save_query_and_properties('k', [listing]) is called on the freshly
\* initialised store for a listing with all_image_urls = urls, and
\* get_properties_for_query reads it back.
SaveAndReadCall ==
    /\ call = NoCall
    /\ \E urls \in ImageLists :
          LET listing == [id |-> 1, price |-> None, rooms |-> None,
                          all_image_urls |-> urls]
              saved == SaveQueryAndProperties(Current, "k", << listing >>)
          IN /\ queries' = saved.queries
             /\ properties' = saved.properties
             /\ links' = saved.links
             /\ call' = [fn |-> "get_properties_for_query",
                         arg |-> urls,
                         ret |-> GetPropertiesForQuery(
                                     saved.properties, saved.links,
                                     FindCachedQuery(saved.queries, "k")),
                         raised |-> FALSE,
                         key |-> "", sent |-> << >>, left |-> << >>]
    /\ UNCHANGED << tx, pc, flt, key, qid, resp, idx, result, upstream, cold,
                    after, commitOrder >>

\* search_properties(filters, page, limit) is called and runs to its end
\* with no other request in flight.  An earlier call with the same
\* arguments has left `stored` in the store (nothing when stored is
\* empty: there was no such call, or its upstream answer was empty).  On
\* a hit (lines 53-65) a page of the stored properties is returned; on a
\* miss (lines 66-111) the upstream collaborator is handed the cleaned
\* filters and answers with `answer`, which is saved when it is not empty.
PagedSearchCall ==
    /\ call = NoCall
    /\ \E items \in PagedFilterMaps, page \in PageArgs, limit \in PageArgs,
          stored \in Unpriced, answer \in Unpriced :
          LET k == CacheKey(items, page, limit)
              before == IF stored = << >> THEN Current
                        ELSE SaveQueryAndProperties(Current, k, stored)
              query_id == FindCachedQuery(before.queries, k)
              hit == query_id # 0
              saved == IF hit \/ answer = << >> THEN before
                       ELSE SaveQueryAndProperties(before, k, answer)
              properties_data ==
                  GetPropertiesForQuery(before.properties, before.links, query_id)
          IN /\ hit => answer = << >>
             /\ queries' = saved.queries
             /\ properties' = saved.properties
             /\ links' = saved.links
             /\ call' = [fn |-> "search_properties(filters, page, limit)",
                         arg |-> << items, page, limit, stored, answer >>,
                         ret |-> IF hit
                                 THEN Slice(properties_data, PageStart(page, limit),
                                            PageStart(page, limit) + limit)
                                 ELSE PriceFilter(answer, BoundOf(items, "min_price"),
                                                  BoundOf(items, "max_price")),
                         raised |-> FALSE,
                         key |-> k,
                         sent |-> IF hit THEN << >>
                                  ELSE << UpstreamFilters(items, page, limit) >>,
                         left |-> items]
    /\ UNCHANGED << tx, pc, flt, key, qid, resp, idx, result, upstream, cold,
                    after, commitOrder >>

\* search_properties_with_pagination({}, build_id) is called while the
\* site holds the result pages `site`.
PaginationCall ==
    /\ call = NoCall
    /\ \E site \in Sites :
          call' = [fn |-> "search_properties_with_pagination",
                   arg |-> site,
                   ret |-> SearchPropertiesWithPagination(site),
                   raised |-> FALSE,
                   key |-> "",
                   sent |-> RequestedPages(<< >>, site, 1),
                   left |-> << >>]
    /\ UNCHANGED requestVars

CallNext ==
    \/ FilterCall
    \/ KeyCall
    \/ SearchCall
    \/ SaveAndReadCall
    \/ PagedSearchCall
    \/ PaginationCall

CallSpec == Init /\ [][CallNext]_vars

(* ======================= properties of the store ======================= *)
Ids(r) == {r[i].id : i \in 1..Len(r)}
Elems(r) == {r[i] : i \in 1..Len(r)}
LinkSet(ltab) == {ltab[i] : i \in 1..Len(ltab)}
Committed == {commitOrder[i] : i \in 1..Len(commitOrder)}
RowsFor(k) == {i \in 1..Len(queries) : queries[i] = k}
PropertyRows(id) == {r \in properties : r.id = id}
Keys == {QueryString(f, DefaultPage, DefaultLimit) : f \in Filters}
StoreEmpty == queries = << >> /\ properties = {} /\ links = << >>
MissDone(s) == pc[s] = "done" /\ upstream[s] = 1
HitDone(s) == pc[s] = "done" /\ upstream[s] = 0

(* C1: when save_query_and_properties fails, the queries, properties and   *)
(* links relations are what they were before the call and the error is     *)
(* re-raised.  Stated for a call that fails while no other request has     *)
(* reached the store: the store was empty before the call, so it must be   *)
(* empty after it.                                                         *)
C1_FailedSaveLeavesStoreUnchanged ==
    \A s \in Slots :
        (pc[s] = "error" /\ \A t \in Slots \ {s} : pc[t] \in {"idle", "miss"})
            => StoreEmpty

(* C2: save is atomic towards concurrent requests: a request that gets a   *)
(* cache hit for a key while another request's save for that key is still  *)
(* in progress receives the listings of that save, never an empty or       *)
(* partial result.                                                         *)
C2_NoHitOnSaveInProgress ==
    \A r, w \in Slots :
        (r # w /\ HitDone(r) /\ key[r] = key[w] /\ pc[w] = "save_loop")
            => Ids(resp[w]) \subseteq Ids(result[r])

(* Two requests that both missed on the same key and both returned.        *)
RacedMisses(a, b) ==
    a # b /\ MissDone(a) /\ MissDone(b) /\ key[a] = key[b]

PropertyRowsAreUnique(a, b) ==
    \A id \in Ids(resp[a]) \cup Ids(resp[b]) : Cardinality(PropertyRows(id)) = 1

LastWins(first, second) ==
    {[id |-> l.id, price |-> l.price] : l \in Elems(second)}
        \cup {[id |-> l.id, price |-> l.price] :
                 l \in {m \in Elems(first) : m.id \notin Ids(second)}}

Agree(p, q) == \A l \in Elems(p), m \in Elems(q) : l.id = m.id => l = m

BothSaved(x, y) == commitOrder = << x, y >> /\ key[x] = key[y]

(* C4, as claimed: when the miss path ran twice for one key, the persisted *)
(* state is the one the opposite commit order would have left.             *)
C4_SameStateInEitherOrder ==
    \A x, y \in Slots :
        BothSaved(x, y) => properties = LastWins(resp[y], resp[x])

(* C4, amended: the query row and the link set do not depend on the commit *)
(* order; every property row holds the fields of the save that committed   *)
(* last among those containing its id, so the property rows are the same   *)
(* in either order when the two responses agree on the ids they share.     *)
C4_LastCommitWins ==
    \A x, y \in Slots :
        BothSaved(x, y) =>
            /\ queries = << key[x] >>
            /\ LinkSet(links) = {<< 1, id >> : id \in Ids(resp[x]) \cup Ids(resp[y])}
            /\ Len(links) = Cardinality(LinkSet(links))
            /\ properties = LastWins(resp[x], resp[y])
            /\ Agree(resp[x], resp[y]) => properties = LastWins(resp[y], resp[x])

C4_Witness ==
    \E x, y \in Slots :
        /\ BothSaved(x, y)
        /\ ~Agree(resp[x], resp[y])
        /\ Ids(resp[x]) # Ids(resp[y])

(* C5: save(key, P) is idempotent: whenever a request is about to call     *)
(* save(key, P), saving twice from the store as it is leaves the queries,  *)
(* properties and links that saving once leaves (the second call adds no   *)
(* link row); and once two requests have both saved the same P under the   *)
(* same key, the store is the one a single save leaves.                    *)
C5_SaveIsIdempotent ==
    /\ \A s \in Slots :
          pc[s] = "save_query" =>
              LET once == SaveQueryAndProperties(Current, key[s], resp[s])
              IN SaveQueryAndProperties(once, key[s], resp[s]) = once
    /\ \A a, b \in Slots :
          (BothSaved(a, b) /\ resp[a] = resp[b])
              => Current = SaveQueryAndProperties(NoTx, key[a], resp[a])

C5_Witness ==
    \E a, b \in Slots :
        BothSaved(a, b) /\ resp[a] = resp[b] /\ Len(resp[a]) = MaxResp

SavedIds == UNION {Ids(resp[c]) : c \in Committed}

(* The listing given for id by the most recent committed save containing it. *)
LatestListing(id) ==
    LET i == CHOOSE n \in 1..Len(commitOrder) :
                 /\ id \in Ids(resp[commitOrder[n]])
                 /\ \A m \in (n + 1)..Len(commitOrder) : id \notin Ids(resp[commitOrder[m]])
    IN CHOOSE l \in Elems(resp[commitOrder[i]]) : l.id = id

(* C6: after any sequence of saves under any keys the properties relation  *)
(* holds exactly one row per external id ever saved, and the row's fields  *)
(* are those given for the id by the most recent save containing it (full  *)
(* replace, nothing kept from older values).                               *)
C6_OneRowPerIdWithLatestFields ==
    /\ properties = {[id |-> id, price |-> LatestListing(id).price] : id \in SavedIds}
    /\ \A id \in SavedIds : Cardinality(PropertyRows(id)) = 1

C6_Witness ==
    \E a, b \in Slots :
        /\ commitOrder = << a, b >>
        /\ key[a] # key[b]
        /\ \E l \in Elems(resp[a]), m \in Elems(resp[b]) :
              l.id = m.id /\ ~IsNone(l.price) /\ IsNone(m.price)

(* C7: every link row references an existing query row and an existing     *)
(* property row, and every listing of a committed save is still returned   *)
(* by get_properties_for_query for that save's query, whatever was saved   *)
(* under other queries since.                                              *)
C7_LinksSurviveUpserts ==
    /\ \A i \in 1..Len(links) :
          /\ links[i][1] \in 1..Len(queries)
          /\ PropertyRows(links[i][2]) # {}
    /\ \A c \in Committed :
          Ids(resp[c]) \subseteq
              Ids(GetPropertiesForQuery(properties, links,
                                        FindCachedQuery(queries, key[c])))

C7_Witness ==
    \E a, b \in Slots :
        /\ commitOrder = << a, b >>
        /\ key[a] # key[b]
        /\ Ids(resp[a]) \cap Ids(resp[b]) # {}
        /\ Len(links) > NumIds

(* C8: no two queries rows share a query_string, and once                  *)
(* find_cached_query(k) returns an id it returns that id ever after.       *)
C8_QueryRowsUniqueAndStable ==
    [][ /\ \A i, j \in 1..Len(queries') : queries'[i] = queries'[j] => i = j
        /\ \A k \in Keys :
              FindCachedQuery(queries, k) # 0
                  => FindCachedQuery(queries', k) = FindCachedQuery(queries, k) ]_vars

C8_Witness ==
    /\ Len(queries) = Cardinality(Keys)
    /\ \A s \in Slots : MissDone(s) /\ s \in Committed

C10_RepeatCallSameResult ==
    \A a, b \in Slots :
        ( /\ a # b
          /\ cold[a] /\ pc[a] = "done" /\ resp[a] # << >>
          /\ \A l \in Elems(resp[a]) : ~IsNone(l.price)
          /\ a \in after[b] /\ pc[b] = "done"
          /\ flt[a] = flt[b] )
            => upstream[b] = 0 /\ result[b] = result[a]

(* A stored row or listing l has a price outside the bounds of filters f. *)
ViolatesPrice(l, f) ==
    /\ ~IsNone(l.price)
    /\ \/ ~IsNone(Cleaned(f.min_price)) /\ Val(l.price) < Val(f.min_price)
       \/ ~IsNone(Cleaned(f.max_price)) /\ Val(l.price) > Val(f.max_price)

(* C12: on a cache miss the upstream result is filtered before it is       *)
(* saved: no property linked to the key of a committed save has a price    *)
(* outside the price bounds the request's filters gave.                    *)
C12_OnlyFilteredListingsSaved ==
    \A s \in Committed :
        \A row \in Elems(GetPropertiesForQuery(properties, links,
                                               FindCachedQuery(queries, key[s]))) :
            ~ViolatesPrice(row, flt[s])

IdSeq(r) == [i \in 1..Len(r) |-> r[i].id]

(* C16: get_properties_for_query(q) returns exactly the properties linked  *)
(* to q in the order their links were inserted: a hit that follows a       *)
(* single save on an empty store returns the ids in the order of the       *)
(* saved list.                                                             *)
C16_ReadInLinkInsertionOrder ==
    \A a, b \in Slots :
        ( /\ commitOrder = << a >> /\ cold[a]
          /\ HitDone(b) /\ a \in after[b] /\ key[a] = key[b] )
            => IdSeq(result[b]) = IdSeq(resp[a])

\* Sequence a is an initial part of sequence b.
IsPrefix(a, b) == Len(a) <= Len(b) /\ SubSeq(b, 1, Len(a)) = a

\* The ids get_properties_for_query returns for key k.
ReadIds(k) ==
    Ids(GetPropertiesForQuery(properties, links, FindCachedQuery(queries, k)))

(* C27: the store only grows: no step of a search_properties call removes  *)
(* a queries row, a properties row (by id) or a link row; consequently,    *)
(* once two saves under one key have committed, the read for the key       *)
(* returns every id of the first as well as every id of the second, also   *)
(* when the second no longer contains the first's listings.                *)
C27_StoreOnlyGrows ==
    /\ [][ /\ IsPrefix(queries, queries')
           /\ IsPrefix(links, links')
           /\ {r.id : r \in properties} \subseteq {r.id : r \in properties'} ]_vars
    /\ [](\A x, y \in Slots :
             BothSaved(x, y) =>
                 (Ids(resp[x]) \cup Ids(resp[y])) \subseteq ReadIds(key[x]))

C27_Witness ==
    \E x, y \in Slots :
        /\ BothSaved(x, y)
        /\ resp[x] # << >> /\ resp[y] # << >>
        /\ Ids(resp[x]) \cap Ids(resp[y]) = {}
        /\ ReadIds(key[x]) = Ids(resp[x]) \cup Ids(resp[y])

(* C28: a cache hit is read-only: when the lookup of search_properties     *)
(* finds a row for the key, the call takes the hit path, and the hit path  *)
(* returns without an upstream call and leaves the queries, properties     *)
(* and links relations (and any open transaction) as they were.            *)
C28_HitIsReadOnly ==
    [][ \A s \in Slots :
          /\ ( /\ pc[s] = "idle" /\ pc'[s] # "idle"
               /\ \E i \in 1..Len(queries) : queries[i] = key'[s] )
                => pc'[s] = "hit" /\ upstream'[s] = 0
          /\ (pc[s] = "hit" /\ pc'[s] # "hit")
                => /\ pc'[s] = "done"
                   /\ upstream'[s] = 0
                   /\ UNCHANGED << queries, properties, links, tx >> ]_vars

C28_Witness ==
    \E s \in Slots :
        /\ HitDone(s) /\ Len(result[s]) = MaxResp
        /\ \E t \in Slots \ {s} : commitOrder = << t >> /\ key[t] = key[s]

(* ============ properties of _filter_listings_by_constraints ============ *)
\* _filter_listings_by_constraints was called and returned.
FilterCalled == call.fn = "_filter_listings_by_constraints" /\ ~call.raised
FilterArgListings == call.arg[1]
FilterArgConstraints == call.arg[2]

\* Listing l of the argument list is in the returned list.
Kept(l) == l \in Elems(call.ret)

\* The listing would be returned if the named constraint were absent.
KeptWithout(l, name) ==
    l \in Elems(FilterListingsByConstraints(
                    FilterArgListings, [FilterArgConstraints EXCEPT ![name] = PyNone]))

\* The value is a number or a text int() accepts.
Numeric(v) == ~IsNone(IntOf(v))

NoConstraints ==
    [min_price |-> PyNone, max_price |-> PyNone, beds |-> PyNone, purpose |-> PyNone]

C19_PriceBoundsFailOpen ==
    FilterCalled =>
        \A l \in Elems(FilterArgListings) :
            LET lo == FilterArgConstraints.min_price
                hi == FilterArgConstraints.max_price
            IN /\ (l.price.kind = "int" /\ Numeric(lo))
                      => (Kept(l) => l.price.num >= Val(IntOf(lo)))
               /\ (l.price.kind = "int" /\ Numeric(hi))
                      => (Kept(l) => l.price.num <= Val(IntOf(hi)))
               /\ (l.price.kind # "int" \/ ~Numeric(lo))
                      => (Kept(l) <=> KeptWithout(l, "min_price"))
               /\ (l.price.kind # "int" \/ ~Numeric(hi))
                      => (Kept(l) <=> KeptWithout(l, "max_price"))

C19_Witness ==
    /\ FilterCalled
    /\ FilterArgConstraints = [NoConstraints EXCEPT !.min_price = PyInt(2)]
    /\ Len(FilterArgListings) = 1
    /\ FilterArgListings[1].price = PyNone
    /\ call.ret = FilterArgListings

(* C20, as claimed: for every non-empty constraint purpose c and every     *)
(* listing with non-empty purpose text t, the listing is kept only if      *)
(* lower-cased c occurs in lower-cased t, whatever c is.                   *)
C20_PurposeSubstringForEveryValue ==
    FilterCalled =>
        \A l \in Elems(FilterArgListings) :
            LET c == NormalPurpose(FilterArgConstraints.purpose)
                t == NormalPurpose(l.purpose)
            IN (Len(c) > 0 /\ Len(t) > 0) => (Kept(l) => Contains(c, t))

(* C20, amended: the rule holds when the constraint, stripped and          *)
(* lower-cased, is 'sale' or 'rent'; for any other non-empty constraint    *)
(* value the purpose constraint is not applied (the listing is kept        *)
(* exactly when it is kept without it).                                    *)
C20_PurposeSubstringForSaleAndRent ==
    FilterCalled =>
        \A l \in Elems(FilterArgListings) :
            LET c == NormalPurpose(FilterArgConstraints.purpose)
                t == NormalPurpose(l.purpose)
            IN (Len(c) > 0 /\ Len(t) > 0) =>
                   IF c \in {Sale, Rent}
                   THEN Kept(l) => Contains(c, t)
                   ELSE Kept(l) <=> KeptWithout(l, "purpose")

C20_Witness ==
    /\ FilterCalled
    /\ FilterArgConstraints = [NoConstraints EXCEPT !.purpose = PyStr(<< "B", "u", "y" >>)]
    /\ Len(FilterArgListings) = 1
    /\ NormalPurpose(FilterArgListings[1].purpose) = << "f", "o", "r", " " >> \o Sale
    /\ call.ret = FilterArgListings

(* ==================== properties of the cache key ====================== *)
KeyCalled == call.fn = "query_string"

\* The values that stand for "filter not set".
EmptyVals == {PyStr(<< >>), PyList(<< >>), PyNone, PyList(<< PyStr(<< >>) >>)}

\* The non-empty key/value pairs of a filter mapping.
NonEmptyPairs(items) == {it \in Elems(items) : it[2] \notin EmptyVals}

(* C13: key determinism: two filter mappings whose sets of non-empty       *)
(* key/value pairs are equal get the same cache key (with equal page and   *)
(* limit), whatever the insertion order of their keys and whatever extra   *)
(* keys with value '', [], None or [''] they carry.                        *)
C13_KeyDeterminism ==
    KeyCalled =>
        (NonEmptyPairs(call.arg[1]) = NonEmptyPairs(call.arg[2])
            => call.ret[1] = call.ret[2])

C13_Witness ==
    /\ KeyCalled
    /\ Len(call.arg[1]) = 2 /\ Len(call.arg[2]) = 2
    /\ call.arg[1][1] = call.arg[2][2]
    /\ call.arg[1][2] = << "beds", PyList(<< PyStr(<< >>) >>) >>
    /\ call.arg[2][1] = << "beds", PyNone >>
    /\ call.arg[1][1][2] \notin EmptyVals
    /\ call.ret[1] = call.ret[2]

\* One call was given {name: [v]} and the other {name: v}, v a scalar.
ListAndScalar(name, v) ==
    /\ KeyCalled
    /\ call.arg[1] = << << name, PyList(<< v >>) >> >>
    /\ call.arg[2] = << << name, v >> >>

Scalars == {v \in FilterVals : v.kind # "list"}

(* C14, as claimed: for every value v the cache key for {k: [v]} differs   *)
(* from the cache key for {k: v}.                                          *)
C14_SingletonListKeyDiffers ==
    \A name \in FilterNames, v \in Scalars :
        ListAndScalar(name, v) => call.ret[1] # call.ret[2]

(* C14, amended: the cache key for {k: [v]} is the cache key for {k: v}    *)
(* when v is truthy (a non-empty text, a non-zero number) and when v is    *)
(* '' (both filters are dropped); the two keys differ only when v is a     *)
(* falsy value other than '', which is dropped as a scalar but kept inside *)
(* the list.                                                               *)
C14_SingletonListKeyIsScalarKey ==
    \A name \in FilterNames, v \in Scalars :
        ListAndScalar(name, v) =>
            (call.ret[1] = call.ret[2] <=> (Truthy(v) \/ v = PyStr(<< >>)))

C14_Witness ==
    /\ ListAndScalar("beds", PyStr(<< "3" >>))
    /\ call.ret[1] = call.ret[2]
    /\ call.ret[1] = "beds=3&limit=50&page=1"

(* ================= properties of the direct searches =================== *)
(* C11: every item search_properties(filters) returns satisfies the        *)
(* constraints present in filters, whatever the upstream returned: with    *)
(* beds = b every returned item that carries a room count has rooms = b,   *)
(* and with max_price = m every returned item has a price <= m.            *)
C11_ResultSatisfiesConstraints ==
    call.fn = "search_properties" =>
        LET f == call.arg[1]
        IN \A item \in Elems(call.ret) :
              /\ (~IsNone(f.beds) /\ ~IsNone(item.rooms)) => item.rooms = f.beds
              /\ ~IsNone(f.max_price)
                    => (~IsNone(item.price) /\ Val(item.price) <= Val(f.max_price))

(* C15: image-list round trip: a property saved with all_image_urls = L,   *)
(* L a list of non-empty URLs or the empty list, is read back by           *)
(* get_properties_for_query with a list equal to L.                        *)
C15_ImageListRoundTrip ==
    (call.fn = "get_properties_for_query"
         /\ \A i \in 1..Len(call.arg) : Len(call.arg[i]) > 0)
        => /\ Len(call.ret) = 1
           /\ call.ret[1].all_image_urls = call.arg

(* C29: on the miss path, when min_price or max_price is present in the    *)
(* cleaned filters, every listing whose price is None is removed from the  *)
(* returned result, and a listing with a price is kept exactly when        *)
(* min_price <= price <= max_price for the bounds present; the kept        *)
(* listings come in the upstream order.                                    *)
C29_MissPriceFilterFailClosed ==
    (call.fn = "search_properties" /\ ~call.raised) =>
        LET f == call.arg[1]
            lo == Cleaned(f.min_price)
            hi == Cleaned(f.max_price)
            got == PropertyFinderSearch(call.arg[2]).listings
            InBounds(l) ==
                /\ ~IsNone(l.price)
                /\ IsNone(lo) \/ Val(lo) <= Val(l.price)
                /\ IsNone(hi) \/ Val(l.price) <= Val(hi)
        IN (~IsNone(lo) \/ ~IsNone(hi)) => call.ret = SelectSeq(got, InBounds)

C29_Witness ==
    /\ call.fn = "search_properties" /\ ~call.raised
    /\ call.arg[1].min_price = Some(2) /\ IsNone(call.arg[1].max_price)
    /\ Len(PropertyFinderSearch(call.arg[2]).listings) = 2
    /\ IsNone(PropertyFinderSearch(call.arg[2]).listings[1].price)
    /\ PropertyFinderSearch(call.arg[2]).listings[2].price = Some(2)
    /\ Len(call.ret) = 1

\* The upstream site failed on a request the search made: the location
\* request, the page with the build id (failed or unparsable), or a result
\* page that was asked for.
UpstreamFailed(o) ==
    \/ o.location = "raise"
    \/ o.build \in {"raise", "none"}
    \/ \E n \in 1..Len(o.pages) :
          /\ ~o.pages[n].ok
          /\ \A m \in 1..(n - 1) : o.pages[m].ok /\ o.pages[m].listings # << >>

(* C17: a network or parse failure of the listing source during a cache    *)
(* miss reaches the caller of search_properties as an error, never as a    *)
(* successful (empty or partial) result.                                   *)
C17_UpstreamFailureIsAnError ==
    (call.fn = "search_properties" /\ UpstreamFailed(call.arg[2])) => call.raised

(* ================== properties of the paged searches =================== *)
PagedCalled == call.fn = "search_properties(filters, page, limit)"
PageArg == call.arg[2]
LimitArg == call.arg[3]

\* The call found its key in the store: an earlier call had saved under it.
WasHit == PagedCalled /\ call.arg[4] # << >>

\* What get_properties_for_query gives for the key of the call.
StoredSequence ==
    GetPropertiesForQuery(properties, links, FindCachedQuery(queries, call.key))

\* The zero-based positions of page PageArg that exist in a sequence of
\* length n, lowest first.
PagePositions(n) ==
    LET first == (PageArg - 1) * LimitArg
        count == Max(0, Min(n, first + LimitArg) - first)
    IN [j \in 1..count |-> first + j - 1]

(* C22: on a cache hit with page >= 1 and limit >= 1, search_properties    *)
(* returns exactly the elements of the stored sequence at the zero-based   *)
(* positions (page-1)*limit .. (page-1)*limit + limit - 1 that exist, in   *)
(* stored order.                                                           *)
C22_HitReturnsThePage ==
    (WasHit /\ PageArg >= 1 /\ LimitArg >= 1) =>
        LET pos == PagePositions(Len(StoredSequence))
        IN call.ret = [j \in 1..Len(pos) |-> StoredSequence[pos[j] + 1]]

C22_Witness ==
    /\ WasHit /\ PageArg = 2 /\ LimitArg = 1
    /\ Len(StoredSequence) = 2
    /\ call.ret = << StoredSequence[2] >>

(* C23: invalid pagination arguments (page < 1 or limit <= 0) make         *)
(* search_properties fail with an error; it never returns a result for     *)
(* such arguments.                                                         *)
C23_InvalidPaginationFails ==
    (PagedCalled /\ (PageArg < 1 \/ LimitArg <= 0)) => call.raised

\* The names of the filters the upstream collaborator was handed.
SentNames ==
    UNION {{call.sent[n][i][1] : i \in 1..Len(call.sent[n])} : n \in 1..Len(call.sent)}

(* C24: on a cache miss the filter set handed to property_finder_search    *)
(* contains neither 'page' nor 'limit'.                                    *)
C24_NoPaginationKeysUpstream ==
    (PagedCalled /\ ~WasHit) => SentNames \cap {"page", "limit"} = {}

(* C30: the page and limit segments of the cache key are the page and      *)
(* limit arguments of search_properties: a 'page' or 'limit' entry inside  *)
(* the filters mapping is overwritten and never influences the key (here   *)
(* the mappings carry the query 'a' and nothing else that reaches the      *)
(* key), and the caller's filters mapping is left as it was.               *)
C30_KeyPagingFromArguments ==
    PagedCalled =>
        /\ call.key = "limit=" \o Str(LimitArg) \o "&page=" \o Str(PageArg) \o "&query=a"
        /\ call.left = call.arg[1]

C30_Witness ==
    /\ PagedCalled
    /\ GetItem(call.arg[1], "page") = PyInt(2)
    /\ GetItem(call.arg[1], "limit") = PyInt(3)
    /\ PageArg = 1 /\ LimitArg = 2
    /\ call.key = "limit=2&page=1&query=a"

(* ==================== properties of the pagination ==================== *)
PaginationCalled == call.fn = "search_properties_with_pagination"

\* The page number of the n-th request.
RequestedPage(n) == GetItem(call.sent[n], "page").num

\* The site answered the request for page n with at least one listing.
NonEmptyPage(n) ==
    n <= Len(call.arg) /\ call.arg[n].ok /\ call.arg[n].listings # << >>

(* C25: search_properties_with_pagination requests pages 1, 2, ... in      *)
(* order, stops at the first page whose listing sequence is empty, and     *)
(* never requests more than 10 pages even if every page is non-empty (so   *)
(* it always terminates).                                                  *)
C25_PaginationStops ==
    PaginationCalled =>
        /\ Len(call.sent) \in 1..10
        /\ \A n \in 1..Len(call.sent) : RequestedPage(n) = n
        /\ \A n \in 1..(Len(call.sent) - 1) : NonEmptyPage(n)
        /\ Len(call.sent) < 10 => ~NonEmptyPage(Len(call.sent))

C25_Witness ==
    /\ PaginationCalled
    /\ Len(call.arg) > 10
    /\ \A n \in 1..Len(call.arg) : NonEmptyPage(n)
    /\ Len(call.sent) = 10
    /\ Len(call.ret) = NumIds

\* The listings of the pages that were fetched, in page order.
Fetched == CollectPages(call.arg, 1)

\* The positions in Fetched of the first listing of every truthy id.
FirstOccurrences ==
    {i \in 1..Len(Fetched) :
        /\ Fetched[i].id # 0
        /\ \A j \in 1..(i - 1) : Fetched[j].id # Fetched[i].id}

\* The k-th smallest of FirstOccurrences.
KthFirst(k) ==
    CHOOSE i \in FirstOccurrences :
        Cardinality({j \in FirstOccurrences : j < i}) = k - 1

(* C26: the sequence search_properties_with_pagination returns contains no *)
(* two listings with the same id: for each id it keeps the first           *)
(* occurrence across the fetched pages, in the order of the fetched        *)
(* listings, and it drops the listings with a falsy id.                    *)
C26_FirstOccurrencePerId ==
    PaginationCalled =>
        /\ \A i, j \in 1..Len(call.ret) : call.ret[i].id = call.ret[j].id => i = j
        /\ \A i \in 1..Len(call.ret) : call.ret[i].id # 0
        /\ Len(call.ret) = Cardinality(FirstOccurrences)
        /\ \A k \in 1..Len(call.ret) : call.ret[k] = Fetched[KthFirst(k)]

C26_Witness ==
    /\ PaginationCalled
    /\ Len(call.arg) = 2 /\ Len(Fetched) = 3
    /\ Fetched[1].id = 0
    /\ Fetched[2].id = Fetched[3].id /\ Fetched[2].price # Fetched[3].price
    /\ call.ret = << Fetched[2] >>

(* C21: _filter_listings_by_constraints is total: for every list of        *)
(* listings and every constraints mapping, whatever the type of their      *)
(* price, rooms, beds or purpose values, it returns a list and never       *)
(* raises.                                                                 *)
C21_FilterIsTotal ==
    call.fn = "_filter_listings_by_constraints" => ~call.raised

====
